---------------------------- MODULE Spec2Model ----------------------------
(***************************************************************************)
(* Gaussian process regression (GPR): the Gaussian log-likelihood of       *)
(* include/Likelihood.h and the posterior tests of                         *)
(* tests/PosteriorProcessTest.cpp, over the GaussianProcess engine they    *)
(* call.                                                                   *)
(*                                                                         *)
(* Numbers.  Kernel values are integers in units of 1/16 (k(x,x) = 16).  The *)
(* core matrix inv(K + sigma*I) is kept exactly, as the pair (adjugate,    *)
(* determinant): C = coreAdj / det.  A likelihood entry is kept as its     *)
(* three terms: dfNum/dfDen - 0.5*log(logArg) + ctCoef*log(2*pi).          *)
(***************************************************************************)
EXTENDS Integers, Sequences, FiniteSets, TLC

\* Largest number of training samples the store holds in the model.
MaxSamples == 2

\* Training inputs (1-D), label entries, output dimensions, noise terms.
XValues == 0 .. 1
YValues == 0 .. 1
OutputDims == {1, 2}
SigmaValues == {0, 1}
KernelFamilies == {"gaussian", "sigmoid"}

VARIABLES
    kernel,        \* kernel family given to the engine's constructor
    sigma,         \* m_Sigma
    samples,       \* Sample Store: sequence of [x, y], y a tuple of labels
    initialized,   \* engine's derived state is valid for the Sample Store
    coreAdj,       \* numerator of the cached core matrix C (adjugate)
    det,           \* cached determinant of K + sigma*I
    outcome,       \* what the last call returned to, or raised at, its caller
    \* Test2, the parallel fill (lines 115-134)
    unclaimed,     \* outer iterations no thread has started
    pc,            \* per thread: "idle", "mean", "upper" or "mirror"
    cur,           \* per thread: its outer iteration i
    col,           \* per thread: its inner index j
    K,             \* the M x M posterior covariance matrix being filled
    mean,          \* the posterior mean vector being filled
    Kwriters,      \* per cell of K: the outer iterations that wrote it
    meanWriters,   \* per entry of mean: the outer iterations that wrote it
    \* Test2, the posterior sampler (lines 137-162)
    landmarkIdx,   \* grid indices that coincide with a training input
    eigenvalues,   \* eigenSolver.eigenvalues(): ascending
    eigenvectors,  \* eigenSolver.eigenvectors(): one column per eigenvalue
    numComponentsToKeep,
    rot,           \* retained eigenvectors
    scl,           \* square roots of the retained eigenvalues
    z,             \* the noise vector of the last draw
    r,             \* the last draw
    drawn,         \* loop counter k of the draws
    stage          \* "off", "decomposed", "sampling", "failed" or "passed"

engineVars == <<kernel, sigma, samples, initialized, coreAdj, det>>
fillVars == <<unclaimed, pc, cur, col, K, mean, Kwriters, meanWriters>>
samplerVars ==
    <<landmarkIdx, eigenvalues, eigenvectors, numComponentsToKeep, rot, scl, z, r,
      drawn, stage>>

----------------------------------------------------------------------------
(* Integer and matrix helpers (Eigen's dense algebra, exact).              *)

Abs(a) == IF a < 0 THEN -a ELSE a

\* C++ integer division: the quotient is truncated toward zero.
CDiv(a, b) == IF a >= 0 THEN a \div b ELSE -((-a) \div b)

\* Floor of num/den for den # 0 of either sign.
FloorDiv(num, den) == IF den > 0 THEN num \div den ELSE (-num) \div (-den)

RECURSIVE SeqSum(_)
SeqSum(s) == IF Len(s) = 0 THEN 0 ELSE s[1] + SeqSum(Tail(s))

\* M with row r and column c removed.
Minor(M, row, column) ==
    [i \in 1 .. Len(M) - 1 |->
        [j \in 1 .. Len(M) - 1 |->
            M[IF i < row THEN i ELSE i + 1][IF j < column THEN j ELSE j + 1]]]

Sign(k) == IF k % 2 = 0 THEN 1 ELSE -1

RECURSIVE Det(_)
Det(M) ==
    IF Len(M) = 0 THEN 1
    ELSE IF Len(M) = 1 THEN M[1][1]
    ELSE SeqSum([c \in 1 .. Len(M) |-> Sign(1 + c) * M[1][c] * Det(Minor(M, 1, c))])

\* Adjugate: inverse(M) = Adj(M) / Det(M).
Adj(M) ==
    [i \in 1 .. Len(M) |->
        [j \in 1 .. Len(M) |-> Sign(i + j) * Det(Minor(M, j, i))]]

\* (A^T * B * A)[d][e] for A an n x m matrix (rows are sequences), B n x n.
QuadForm(A, B, d, e) ==
    SeqSum([i \in 1 .. Len(A) |->
        A[i][d] * SeqSum([j \in 1 .. Len(A) |-> B[i][j] * A[j][e]])])

----------------------------------------------------------------------------
(* Errors: every throw of the code throws a std::string.                   *)

ErrNotImplemented ==
    [kind |-> "std::string", what |-> "Likelihood: operator() is not implemented."]
ErrDeterminant ==
    [kind |-> "std::string",
     what |-> "GaussianLogLikelihood: determinant of K is smaller or equal to zero."]
ErrUninitialized ==
    [kind |-> "std::string", what |-> "GaussianProcess: not initialized."]
ErrNoSamples ==
    [kind |-> "std::string", what |-> "GaussianProcess: no input samples."]
ErrDimension ==
    [kind |-> "std::string", what |-> "GaussianProcess: dimension mismatch."]
ErrInstability ==
    [kind |-> "std::string", what |-> "GaussianProcess: numerical instability."]
ErrCredible ==
    [kind |-> "std::string", what |-> "error in calculating credible interval."]

NoError == [kind |-> "", what |-> ""]

Returned(op, v) == [op |-> op, status |-> "value", err |-> NoError, value |-> v]
Raised(op, e) == [op |-> op, status |-> "error", err |-> e, value |-> <<>>]
\* A failed eigen_assert: the process is aborted, nothing reaches the caller.
Aborted(op) == [op |-> op, status |-> "abort", err |-> NoError, value |-> <<>>]

----------------------------------------------------------------------------
(* The GaussianProcess engine.                                             *)

\* k(x1, x2) in units of 1/16, for the kernel family of the engine.
GaussianKernel(x1, x2) ==
    LET d == Abs(x1 - x2)
    IN  IF d = 0 THEN 16 ELSE IF d = 1 THEN 8 ELSE IF d = 2 THEN 1 ELSE 0

\* tanh(x1*x2 - 1): a symmetric kernel that is not positive semidefinite.
SigmoidKernel(x1, x2) ==
    LET p == x1 * x2
    IN  IF p = 0 THEN -12 ELSE IF p = 1 THEN 0 ELSE IF p = 2 THEN 12 ELSE 16

Kernel(x1, x2) ==
    IF kernel = "gaussian" THEN GaussianKernel(x1, x2) ELSE SigmoidKernel(x1, x2)

N == Len(samples)
Dout == IF N = 0 THEN 0 ELSE Len(samples[1].y)

\* K[i][j] = Kernel(input_i, input_j).
ComputeKernelMatrix ==
    [i \in 1 .. N |-> [j \in 1 .. N |-> Kernel(samples[i].x, samples[j].x)]]

\* K + sigma*I.
NoisyKernelMatrix ==
    [i \in 1 .. N |->
        [j \in 1 .. N |-> ComputeKernelMatrix[i][j] + (IF i = j THEN sigma ELSE 0)]]

\* Y: rows = samples, columns = output dimensions.
LabelMatrix == [i \in 1 .. N |-> samples[i].y]

\* k(x): Kernel(x, input_i) over the training inputs.
KernelVector(x) == [i \in 1 .. N |-> Kernel(x, samples[i].x)]


\* Fixed-point unit of a covariance value, and the query points of the tests
\* (3 lies beyond the training range).
FixedUnit == 16
XQuery == 0 .. 3

\* Largest root with root*root <= n: std::sqrt on fixed-point values.
RECURSIVE SqrtFrom(_, _)
SqrtFrom(n, root) ==
    IF (root + 1) * (root + 1) > n THEN root ELSE SqrtFrom(n, root + 1)
Sqrt(n) == SqrtFrom(n, 0)

\* Likelihood evaluation reads Y and (C, det) through these two.  Y is
\* derived from the Sample Store on demand; (C, det) is the state cached by
\* Initialize, valid only until the next AddSample.
ComputeLabelMatrix == [ok |-> TRUE, Y |-> LabelMatrix, err |-> NoError]

\* A core matrix built from the current store on every call, with no check
\* that the engine is initialized.
ComputeCoreMatrixStateless ==
    [ok |-> TRUE, C |-> Adj(NoisyKernelMatrix),
     determinant |-> Det(NoisyKernelMatrix), err |-> NoError]

ComputeCoreMatrix ==
    IF initialized
    THEN [ok |-> TRUE, C |-> coreAdj, determinant |-> det, err |-> NoError]
    ELSE [ok |-> FALSE, C |-> <<>>, determinant |-> 0, err |-> ErrUninitialized]

\* Posterior covariance Kernel(x1,x2) - k(x1)^T C k(x2), as a fraction.
CovarianceNum(x1, x2) ==
    Kernel(x1, x2) * det
    - SeqSum([i \in 1 .. N |->
          KernelVector(x1)[i]
          * SeqSum([j \in 1 .. N |-> coreAdj[i][j] * KernelVector(x2)[j]])])

\* (*gp)(x1, x2): the covariance in fixed point, or the error it raises.
Covariance(x1, x2) ==
    IF ~initialized THEN [ok |-> FALSE, v |-> 0, err |-> ErrUninitialized]
    ELSE IF det = 0 THEN [ok |-> FALSE, v |-> 0, err |-> ErrInstability]
    ELSE LET v == FloorDiv(CovarianceNum(x1, x2) * FixedUnit, det)
         IN  IF x1 = x2 /\ v < 0
             THEN [ok |-> FALSE, v |-> 0, err |-> ErrInstability]
             ELSE [ok |-> TRUE, v |-> v, err |-> NoError]

\* A credible interval taken from the prior variance Kernel(x, x) instead of
\* the posterior self-covariance.
GetCredibleIntervalFromPrior(x) ==
    IF Covariance(x, x).ok
    THEN [ok |-> TRUE, v |-> 2 * Sqrt(Kernel(x, x) * FixedUnit), err |-> NoError]
    ELSE Covariance(x, x)

\* GetCredibleInterval(x) = 2 * sqrt(Covariance(x, x)).
GetCredibleInterval(x) ==
    LET c == Covariance(x, x)
    IN  IF c.ok THEN [ok |-> TRUE, v |-> 2 * Sqrt(c.v), err |-> NoError] ELSE c

\* Predict(x) = Y^T C k(x), one fraction per output dimension.
PredictValue(x) ==
    [d \in 1 .. Dout |->
        [num |-> SeqSum([i \in 1 .. N |->
                    samples[i].y[d]
                    * SeqSum([j \in 1 .. N |-> coreAdj[i][j] * KernelVector(x)[j]])]),
         den |-> det]]

----------------------------------------------------------------------------
(* Likelihood.h                                                            *)

\* Likelihood::GetLabelMatrix and Likelihood::GetCoreMatrix forward to the
\* engine; an error of the engine passes through them unchanged.
GetLabelMatrix == ComputeLabelMatrix
GetCoreMatrix == ComputeCoreMatrix

\* Numerators of -0.5 * (Y.adjoint() * C * Y) over the denominator 2*det:
\* a Dout x Dout matrix.
DataFitMatrix(Y, C) ==
    LET cols == IF Len(Y) = 0 THEN 0 ELSE Len(Y[1])
    IN  [d \in 1 .. cols |-> [e \in 1 .. cols |-> -QuadForm(Y, C, d, e)]]

\* VectorType df = <Dout x Dout matrix>.  For Dout = 1 the matrix is a
\* vector.  For Dout > 1 Eigen's size check fails: with assertions enabled
\* the process is aborted, with NDEBUG the vector receives the first column.
DataFit(Y, C) ==
    LET M == DataFitMatrix(Y, C)
    IN  IF Len(M) = 1
        THEN {[ok |-> TRUE, df |-> <<M[1][1]>>]}
        ELSE {[ok |-> FALSE, df |-> <<>>],
              [ok |-> TRUE, df |-> [d \in 1 .. Len(M) |-> M[d][1]]]}

\* -C.rows()/2: Eigen::Index is a signed integer, the division is integral.
ConstantTerm(C) == CDiv(-Len(C), 2)

\* GaussianLogLikelihood::operator()(gp): the outcomes of one evaluation.
GaussianLogLikelihood ==
    LET yl == GetLabelMatrix
        cm == GetCoreMatrix
    IN  IF ~yl.ok THEN {Raised("Evaluate", yl.err)}
        ELSE IF ~cm.ok THEN {Raised("Evaluate", cm.err)}
        ELSE {IF ~f.ok THEN Aborted("Evaluate")
              ELSE IF cm.determinant <= 0 THEN Raised("Evaluate", ErrDeterminant)
              ELSE Returned("Evaluate",
                       [d \in 1 .. Len(f.df) |->
                           [dfNum |-> f.df[d],
                            dfDen |-> 2 * cm.determinant,
                            logArg |-> cm.determinant,
                            ctCoef |-> ConstantTerm(cm.C)]])
              : f \in DataFit(yl.Y, cm.C)}

----------------------------------------------------------------------------
(* Operations.                                                             *)

Alive == outcome.status # "abort"

Labels(d) == [1 .. d -> YValues]

AddSample(x, y) ==
    /\ Alive
    /\ UNCHANGED <<fillVars, samplerVars>>
    /\ N < MaxSamples
    /\ IF N > 0 /\ Len(y) # Dout
       THEN /\ outcome' = Raised("AddSample", ErrDimension)
            /\ UNCHANGED engineVars
       ELSE /\ samples' = Append(samples, [x |-> x, y |-> y])
            /\ initialized' = FALSE
            /\ outcome' = Returned("AddSample", <<>>)
            /\ UNCHANGED <<kernel, sigma, coreAdj, det>>

SetSigma(v) ==
    /\ Alive
    /\ UNCHANGED <<fillVars, samplerVars>>
    /\ sigma' = v
    /\ outcome' = Returned("SetSigma", <<>>)
    /\ UNCHANGED <<kernel, samples, initialized, coreAdj, det>>

Initialize ==
    /\ Alive
    /\ UNCHANGED <<fillVars, samplerVars>>
    /\ IF N = 0
       THEN /\ outcome' = Raised("Initialize", ErrNoSamples)
            /\ UNCHANGED engineVars
       ELSE /\ coreAdj' = Adj(NoisyKernelMatrix)
            /\ det' = Det(NoisyKernelMatrix)
            /\ initialized' = TRUE
            /\ outcome' = Returned("Initialize", <<>>)
            /\ UNCHANGED <<kernel, sigma, samples>>

Predict(x) ==
    /\ Alive
    /\ UNCHANGED <<fillVars, samplerVars>>
    /\ outcome' = IF initialized THEN Returned("Predict", PredictValue(x))
                  ELSE Raised("Predict", ErrUninitialized)
    /\ UNCHANGED engineVars

\* likelihood(gp) on a GaussianLogLikelihood.
Evaluate ==
    /\ Alive
    /\ UNCHANGED <<fillVars, samplerVars>>
    /\ outcome' \in GaussianLogLikelihood
    /\ UNCHANGED engineVars

\* Likelihood::operator() of the base class, reached through a subclass that
\* does not override it.
LikelihoodOperator ==
    /\ Alive
    /\ UNCHANGED <<fillVars, samplerVars>>
    /\ outcome' = Raised("Likelihood", ErrNotImplemented)
    /\ UNCHANGED engineVars

\* One iteration of Test1's loop: c = 2*sqrt((*gp)(x,x)) - GetCredibleInterval(x);
\* c != 0 throws, and the catch replaces every error by ErrCredible.
Test1(x) ==
    /\ Alive
    /\ UNCHANGED <<fillVars, samplerVars>>
    /\ LET cov == Covariance(x, x)
           ci == GetCredibleInterval(x)
       IN  outcome' = IF cov.ok /\ ci.ok /\ 2 * Sqrt(cov.v) - ci.v = 0
                      THEN Returned("Test1", <<x, 2 * Sqrt(cov.v), ci.v>>)
                      ELSE Raised("Test1", ErrCredible)
    /\ UNCHANGED engineVars

\* The fill of Test2 has not started.
FillIdle ==
    /\ unclaimed = {}
    /\ pc = <<>>
    /\ cur = <<>>
    /\ col = <<>>
    /\ K = <<>>
    /\ mean = <<>>
    /\ Kwriters = <<>>
    /\ meanWriters = <<>>

\* The sampler of Test2 has not started.
SamplerOff ==
    /\ landmarkIdx = {}
    /\ eigenvalues = <<>>
    /\ eigenvectors = <<>>
    /\ numComponentsToKeep = 0
    /\ rot = <<>>
    /\ scl = <<>>
    /\ z = <<>>
    /\ r = <<>>
    /\ drawn = 0
    /\ stage = "off"

Init ==
    /\ kernel \in KernelFamilies
    /\ sigma = 0
    /\ samples = <<>>
    /\ initialized = FALSE
    /\ coreAdj = <<>>
    /\ det = 0
    /\ outcome = Returned("GaussianProcess", <<>>)
    /\ FillIdle
    /\ SamplerOff

Next ==
    \/ \E x \in XValues, d \in OutputDims : \E y \in Labels(d) : AddSample(x, y)
    \/ \E v \in SigmaValues : SetSigma(v)
    \/ Initialize
    \/ \E x \in XQuery : Predict(x)
    \/ Evaluate
    \/ LikelihoodOperator
    \/ \E x \in XQuery : Test1(x)

vars == <<engineVars, outcome, fillVars, samplerVars>>

Spec == Init /\ [][Next]_vars

----------------------------------------------------------------------------
(* Test2, lines 104-134: the engine with zero noise and its landmarks, and  *)
(* the parallel fill of mean and K over the evaluation grid.               *)

\* number_of_samples: the number of grid points (50 in the test).
MGrid == 3
\* Worker threads of the OpenMP team.
NumThreads == 2

Grid == 0 .. MGrid - 1
Threads == 1 .. NumThreads

\* Grid index i stands for the query point x1(0) = i * 5.0/number_of_samples.
GridPoint(i) == i

\* The landmarks of Test2 that fall on the grid of the model: grid index 1.
Landmarks == <<[x |-> 1, y |-> <<1>>]>>

\* gp->Predict(x1)(0) in fixed point.
PredictFirst(x) ==
    FloorDiv(PredictValue(x)[1].num * FixedUnit, PredictValue(x)[1].den)

\* Inner loop "for (unsigned j = i; ...)" starting at column 0 instead.
InnerStartZero(i) == 0

\* First value of the inner index j of outer iteration i.
InnerStart(i) == i

\* A thread of the team takes an outer iteration no thread has taken; the
\* OpenMP schedule is left open.
StartIteration(t, i) ==
    /\ pc[t] = "idle"
    /\ i \in unclaimed
    /\ unclaimed' = unclaimed \ {i}
    /\ cur' = [cur EXCEPT ![t] = i]
    /\ pc' = [pc EXCEPT ![t] = "mean"]
    /\ UNCHANGED <<col, K, mean, Kwriters, meanWriters, engineVars, outcome, samplerVars>>

\* mean[i] = gp->Predict(x1)(0); then the inner loop is entered.
WriteMean(t) ==
    /\ pc[t] = "mean"
    /\ mean' = [mean EXCEPT ![cur[t]] = PredictFirst(GridPoint(cur[t]))]
    /\ meanWriters' = [meanWriters EXCEPT ![cur[t]] = @ \cup {cur[t]}]
    /\ col' = [col EXCEPT ![t] = InnerStart(cur[t])]
    /\ pc' = [pc EXCEPT ![t] = IF InnerStart(cur[t]) < MGrid THEN "upper" ELSE "idle"]
    /\ UNCHANGED <<unclaimed, cur, K, Kwriters, engineVars, outcome, samplerVars>>

\* K(i,j) = (*gp)(x1,x2).
WriteUpper(t) ==
    /\ pc[t] = "upper"
    /\ LET i == cur[t]
           j == col[t]
       IN  /\ K' = [K EXCEPT ![i][j] = Covariance(GridPoint(i), GridPoint(j)).v]
           /\ Kwriters' = [Kwriters EXCEPT ![i][j] = @ \cup {i}]
    /\ pc' = [pc EXCEPT ![t] = "mirror"]
    /\ UNCHANGED <<unclaimed, cur, col, mean, meanWriters, engineVars, outcome, samplerVars>>

\* K(j,i) = K(i,j), read back from the shared matrix; then j++.
WriteMirror(t) ==
    /\ pc[t] = "mirror"
    /\ LET i == cur[t]
           j == col[t]
       IN  /\ K' = [K EXCEPT ![j][i] = K[i][j]]
           /\ Kwriters' = [Kwriters EXCEPT ![j][i] = @ \cup {i}]
    /\ col' = [col EXCEPT ![t] = @ + 1]
    /\ pc' = [pc EXCEPT ![t] = IF col[t] + 1 < MGrid THEN "upper" ELSE "idle"]
    /\ UNCHANGED <<unclaimed, cur, mean, meanWriters, engineVars, outcome, samplerVars>>

\* Lines 104-118: the engine of Test2 initialized, mean and K zeroed.
InitFill ==
    /\ kernel = "gaussian"
    /\ sigma = 0
    /\ samples = Landmarks
    /\ initialized = TRUE
    /\ coreAdj = Adj(NoisyKernelMatrix)
    /\ det = Det(NoisyKernelMatrix)
    /\ outcome = Returned("Initialize", <<>>)
    /\ unclaimed = Grid
    /\ pc = [t \in Threads |-> "idle"]
    /\ cur = [t \in Threads |-> 0]
    /\ col = [t \in Threads |-> 0]
    /\ K = [i \in Grid |-> [j \in Grid |-> 0]]
    /\ mean = [i \in Grid |-> 0]
    /\ Kwriters = [i \in Grid |-> [j \in Grid |-> {}]]
    /\ meanWriters = [i \in Grid |-> {}]
    /\ SamplerOff

NextFill ==
    \/ \E t \in Threads, i \in Grid : StartIteration(t, i)
    \/ \E t \in Threads : WriteMean(t)
    \/ \E t \in Threads : WriteUpper(t)
    \/ \E t \in Threads : WriteMirror(t)

SpecFill == InitFill /\ [][NextFill]_vars

FillDone == unclaimed = {} /\ \A t \in Threads : pc[t] = "idle"

\* C10: in the parallel fill no two distinct outer iterations ever write
\* the same cell of K or entry of mean, under any interleaving; on
\* completion every cell and entry has been written, K is symmetric, and
\* the result is the one fixed by the engine, whatever the schedule.
C10_FillIsRaceFree ==
    /\ \A i \in Grid : Cardinality(meanWriters[i]) <= 1
    /\ \A i \in Grid, j \in Grid : Cardinality(Kwriters[i][j]) <= 1
    /\ FillDone =>
        /\ \A i \in Grid : meanWriters[i] # {}
        /\ \A i \in Grid, j \in Grid : Kwriters[i][j] # {}
        /\ \A i \in Grid, j \in Grid : K[i][j] = K[j][i]
        /\ \A i \in Grid : mean[i] = PredictFirst(GridPoint(i))
        /\ \A i \in Grid, j \in Grid :
               i <= j => K[i][j] = Covariance(GridPoint(i), GridPoint(j)).v

\* Two threads are inside different outer iterations at once, each about
\* to write a mirrored cell, with cells of both iterations already written.
C10_Witness ==
    /\ pc[1] = "mirror"
    /\ pc[2] = "mirror"
    /\ cur[1] # cur[2]
    /\ col[1] > cur[1]
    /\ col[2] > cur[2]

----------------------------------------------------------------------------
(* Claims about the likelihood and the engine (specification Spec).        *)

Evaluated == outcome.op = "Evaluate"

\* C1: a likelihood evaluation on an engine whose determinant is <= 0 always
\* fails with the determinant error and returns no vector; for every
\* determinant > 0 it returns a vector and raises no error.
C1_DeterminantDecidesOutcome ==
    (Evaluated /\ initialized) =>
        IF det <= 0
        THEN outcome = Raised("Evaluate", ErrDeterminant)
        ELSE outcome.status = "value"

C3_ExactHalfOfN ==
    (Evaluated /\ outcome.status = "value") =>
        \A d \in 1 .. Len(outcome.value) : 2 * outcome.value[d].ctCoef = -N

\* C4: for every output dimension Dout >= 1 the evaluation (on a valid
\* determinant) returns exactly Dout entries, entry d holding the d-th
\* diagonal element of -0.5 * Y^T C Y, and it does not fail for Dout > 1.
C4_DiagonalPerOutput ==
    (Evaluated /\ initialized /\ det > 0) =>
        /\ outcome.status = "value"
        /\ Len(outcome.value) = Dout
        /\ \A d \in 1 .. Len(outcome.value) :
               outcome.value[d].dfNum = -QuadForm(LabelMatrix, coreAdj, d, d)

\* The other errors the code raises.
OtherErrors ==
    {ErrNotImplemented, ErrUninitialized, ErrNoSamples, ErrDimension,
     ErrInstability, ErrCredible}

\* C5: the determinant error has a kind distinct from the kind of every
\* other error the code raises, and reaches the caller unreplaced.
C5_DistinctErrorKind ==
    (Evaluated /\ initialized /\ det <= 0 /\ outcome.status = "error") =>
        /\ outcome.err = ErrDeterminant
        /\ \A e \in OtherErrors : e.kind # outcome.err.kind

----------------------------------------------------------------------------
(* Test2, lines 137-162: truncated eigendecomposition and posterior draws. *)
(*                                                                         *)
(* Units.  Eigenvalues are integers in units of 1e-10, so the threshold    *)
(* 1e-10 is 1 and scl is in units of 1e-5.  Eigenvector entries are in     *)
(* units of 1/5 (a column (3,4,0)/5 is kept as (3,4,0)), so K, Q*Q^T are   *)
(* in units of 1e-10/25 and a draw is in units of 1e-5/5.                  *)

\* Number of draws of the loop at line 150 (10 in the test; the draws are
\* independent of one another).
MaxDraws == 1

\* The threshold 1e-10 of line 139.
Threshold == 1

\* (1e-8)^2 in units of (1e-10/25)^2: the tolerance of line 145, squared.
ErrToleranceSq == 625 * 10000

Components == 1 .. MGrid
EigValues == {-200, -4, 0, 1, 4, 16}
ZValues == {-1, 2}

ErrEigen ==
    [kind |-> "std::string", what |-> "eigen decomposition not accurate enough."]
ErrLandmarks ==
    [kind |-> "std::string", what |-> "samples do not corresponds to the landmarks."]

\* Orthonormal bases with rational entries: the unit vectors, and the unit
\* vectors with a 3-4-5 rotation in the plane of grid points a and b.
UnitBasis == [i \in Grid |-> [k \in Components |-> IF k = i + 1 THEN 5 ELSE 0]]

RotatedBasis(a, b) ==
    [i \in Grid |->
        [k \in Components |->
            IF i = a /\ k = a + 1 THEN 3
            ELSE IF i = b /\ k = a + 1 THEN 4
            ELSE IF i = a /\ k = b + 1 THEN -4
            ELSE IF i = b /\ k = b + 1 THEN 3
            ELSE IF k = i + 1 THEN 5 ELSE 0]]

Bases ==
    {UnitBasis} \cup {RotatedBasis(ab[1], ab[2]) : ab \in {q \in Grid \X Grid : q[1] < q[2]}}

ColumnOrders ==
    {p \in [Components -> Components] : \A a, b \in Components : a # b => p[a] # p[b]}

\* What SelfAdjointEigenSolver can return: orthonormal columns in any order
\* of the basis, eigenvalues sorted in increasing order.
EigenvectorMatrices ==
    {[i \in Grid |-> [k \in Components |-> B[i][p[k]]]] : B \in Bases, p \in ColumnOrders}

AscendingSpectra ==
    {e \in [Components -> EigValues] : \A k \in 1 .. MGrid - 1 : e[k] <= e[k + 1]}

\* V * diag(e) * V^T: the matrix of which (e, V) is the decomposition.
Recompose(V, e) ==
    [i \in Grid |-> [j \in Grid |->
        SeqSum([k \in Components |-> V[i][k] * e[k] * V[j][k]])]]

\* ((eigenvalues.array() - 1e-10) >= 0).count()
NumComponentsAtLeast(e) == Cardinality({k \in Components : e[k] - Threshold >= 0})

\* ((eigenvalues.array() - 1e-10) > 0).count()
NumComponents(e) == Cardinality({k \in Components : e[k] - Threshold > 0})

\* eigenvectors().topLeftCorner(K.rows(), keep): the columns not reversed.
RotUnreversed(V, keep) == [i \in Grid |-> [c \in 1 .. keep |-> V[i][c]]]

\* eigenvectors().rowwise().reverse().topLeftCorner(K.rows(), keep)
Rot(V, keep) == [i \in Grid |-> [c \in 1 .. keep |-> V[i][MGrid + 1 - c]]]

\* eigenvalues().reverse().topRows(keep).array().sqrt()
Scl(e, keep) == [c \in 1 .. keep |-> Sqrt(e[MGrid + 1 - c])]

\* (Q*Q.transpose() - K).squaredNorm() for Q = rot*scl.asDiagonal().
ErrSq(rt, sc, Kmat) ==
    LET QQt(i, j) == SeqSum([c \in 1 .. Len(sc) |-> rt[i][c] * sc[c] * sc[c] * rt[j][c]])
        diff(i, j) == QQt(i, j) - Kmat[i][j]
    IN  SeqSum([i \in 1 .. MGrid |->
            SeqSum([j \in 1 .. MGrid |-> diff(i - 1, j - 1) * diff(i - 1, j - 1)])])

\* Lines 139-148.
Truncate ==
    /\ stage = "decomposed"
    /\ LET keep == NumComponents(eigenvalues)
           rt == Rot(eigenvectors, keep)
           sc == Scl(eigenvalues, keep)
       IN  /\ numComponentsToKeep' = keep
           /\ rot' = rt
           /\ scl' = sc
           /\ IF ErrSq(rt, sc, K) > ErrToleranceSq
              THEN /\ stage' = "failed"
                   /\ outcome' = Raised("Test2", ErrEigen)
              ELSE /\ stage' = "sampling"
                   /\ outcome' = Returned("Truncate", <<>>)
    /\ UNCHANGED <<landmarkIdx, eigenvalues, eigenvectors, z, r, drawn>>
    /\ UNCHANGED <<engineVars, fillVars>>

\* GetRandomVector(n): n standard-normal deviates.
GetRandomVector(n) == [1 .. n -> ZValues]

\* rot * VectorType(noise.array() * scl.array()) + mean.  The coefficient-wise
\* product of vectors of unequal length fails Eigen's size check: with
\* assertions enabled the process is aborted, with NDEBUG the product has
\* the length of scl and uses the first entries of the noise vector.
DrawOutcomes(noise) ==
    LET draw == [i \in Grid |->
                    SeqSum([c \in 1 .. Len(scl) |-> rot[i][c] * (noise[c] * scl[c])])
                    + 5 * mean[i]]
    IN  IF Len(noise) = Len(scl)
        THEN {[ok |-> TRUE, v |-> draw]}
        ELSE {[ok |-> FALSE, v |-> <<>>], [ok |-> TRUE, v |-> draw]}

\* One iteration of the loop of lines 150-162.
Draw ==
    /\ stage = "sampling"
    /\ drawn < MaxDraws
    /\ \E noise \in GetRandomVector(MGrid) : \E d \in DrawOutcomes(noise) :
        /\ z' = noise
        /\ r' = d.v
        /\ IF ~d.ok
           THEN /\ stage' = "failed"
                /\ outcome' = Aborted("Test2")
                /\ drawn' = drawn
           ELSE IF \E t \in landmarkIdx : d.v[t] # 5 * mean[t]
           THEN /\ stage' = "failed"
                /\ outcome' = Raised("Test2", ErrLandmarks)
                /\ drawn' = drawn
           ELSE /\ stage' = IF drawn + 1 = MaxDraws THEN "passed" ELSE "sampling"
                /\ outcome' = Returned("Draw", <<>>)
                /\ drawn' = drawn + 1
    /\ UNCHANGED <<landmarkIdx, eigenvalues, eigenvectors, numComponentsToKeep, rot, scl>>
    /\ UNCHANGED <<engineVars, fillVars>>

\* Line 138: K and mean are filled and K is decomposed.  With zero noise
\* the rows of K at the landmark indices are zero.
InitSampler ==
    /\ kernel = "gaussian"
    /\ sigma \in SigmaValues
    /\ samples = Landmarks
    /\ initialized = TRUE
    /\ coreAdj = Adj(NoisyKernelMatrix)
    /\ det = Det(NoisyKernelMatrix)
    /\ outcome = Returned("eigenSolver", <<>>)
    /\ unclaimed = {}
    /\ pc = [t \in Threads |-> "idle"]
    /\ cur = [t \in Threads |-> 0]
    /\ col = [t \in Threads |-> 0]
    /\ landmarkIdx = IF sigma = 0 THEN {Landmarks[n].x : n \in 1 .. Len(Landmarks)} ELSE {}
    /\ eigenvalues \in AscendingSpectra
    /\ eigenvectors \in EigenvectorMatrices
    /\ K = Recompose(eigenvectors, eigenvalues)
    /\ \A t \in landmarkIdx : \A j \in Grid : K[t][j] = 0
    /\ mean = [i \in Grid |-> i + 1]
    /\ Kwriters = [i \in Grid |-> [j \in Grid |-> {i, j}]]
    /\ meanWriters = [i \in Grid |-> {i}]
    /\ numComponentsToKeep = 0
    /\ rot = <<>>
    /\ scl = <<>>
    /\ z = <<>>
    /\ r = <<>>
    /\ drawn = 0
    /\ stage = "decomposed"

NextSampler ==
    \/ Truncate
    \/ Draw

SpecSampler == InitSampler /\ [][NextSampler]_vars

----------------------------------------------------------------------------
(* Claims about the sampler (specification SpecSampler).                   *)

\* C7: with sigma = 0, every posterior draw equals the posterior mean at
\* each grid index that coincides with a training input, for every noise
\* vector and every number of retained components.
C7_DrawsMatchMeanAtLandmarks ==
    (sigma = 0 /\ r # <<>>) => \A t \in landmarkIdx : r[t] = 5 * mean[t]

\* A zero-noise draw with two retained components that moved some other
\* grid point away from the mean.
C7_Witness ==
    /\ sigma = 0
    /\ landmarkIdx # {}
    /\ r # <<>>
    /\ numComponentsToKeep >= 2
    /\ \E i \in Grid : r[i] # 5 * mean[i]

\* C8: in every draw the noise vector has as many entries as there are
\* retained eigencomponents, also when fewer than M are retained.
C8_NoiseLengthIsRetainedCount ==
    z # <<>> => Len(z) = numComponentsToKeep

\* C9: the truncation retains exactly the eigenpairs with eigenvalue above
\* the threshold, in descending eigenvalue order, each retained eigenvector
\* column paired with the square root of its own eigenvalue (stated of the
\* states the truncation step produces; the draws leave rot and scl alone).
C9_TruncationKeepsSignificantPairs ==
    (outcome.op = "Truncate" \/ outcome.err = ErrEigen) =>
        LET kept == {k \in Components : eigenvalues[k] > Threshold}
            keep == numComponentsToKeep
        IN  /\ keep = Cardinality(kept)
            /\ Len(scl) = keep
            /\ \A i \in Grid : Len(rot[i]) = keep
            /\ \E src \in [1 .. keep -> Components] :
                /\ {src[c] : c \in 1 .. keep} = kept
                /\ \A c \in 1 .. keep :
                    /\ scl[c] * scl[c] = eigenvalues[src[c]]
                    /\ \A i \in Grid : rot[i][c] = eigenvectors[i][src[c]]
                /\ \A c \in 1 .. keep - 1 :
                    eigenvalues[src[c]] >= eigenvalues[src[c + 1]]

\* Two components of different eigenvalue retained, one whose eigenvalue
\* equals the threshold discarded.
C9_Witness ==
    /\ stage = "sampling"
    /\ numComponentsToKeep = 2
    /\ eigenvalues[MGrid - 2] = Threshold
    /\ eigenvalues[MGrid - 1] # eigenvalues[MGrid]

====
